---- MODULE Spec2Model ----
(***************************************************************************)
(* A model of util/tracklist.py: the PlayList class, an ordered track list *)
(* with a cursor (track_index), a current track, a pause flag and timing   *)
(* derived from wall-clock reads.                                          *)
(*                                                                         *)
(* Track objects live in a heap (the variable tracks) addressed by         *)
(* reference, so that the aliasing between track_list and current_track    *)
(* is the aliasing of the Python objects.  A Python exception is an        *)
(* outcome of the call: the assignments made before the raise are kept.    *)
(***************************************************************************)
EXTENDS Integers, Sequences, FiniteSets, TLC

\* ---------------------------------------------------------------- bounds
MaxLen == 3        \* longest track list explored
MaxBatch == 2      \* longest input of add_list
MaxIdx == 2        \* longest index list given to delete
MaxOffset == 1     \* largest offset given to play and pause
MaxTicks == 1      \* how far the clock advances past Epoch
MaxCalls == 3      \* how many calls the caller makes in a run
Epoch == 10        \* first clock reading; larger than every track duration
MaxAmount == 2     \* largest amount given to get_tracks
MaxJump == 2       \* largest jump, either way, given to next_track_info
MaxSeek == 3       \* largest offset given to play where runs record arguments
MaxTimedCalls == 4 \* how many calls the caller makes in a run of SpecTimed
MaxTimedTicks == 3 \* how far the clock advances in a run of SpecTimed
MaxDrift == 1      \* how far the clock moves between the two reads of one play

\* ---------------------------------------------------------------- values
None == "None"

NoneV == [kind |-> "None"]
BoolV(b) == [kind |-> "bool", bool |-> b]
NumV(n) == [kind |-> "num", num |-> n]
TrackV(t) == [kind |-> "Track", track |-> t]
PairV(a, b) == [kind |-> "tuple", first |-> a, second |-> b]
ListV(items) == [kind |-> "list", items |-> items]
Raise(e) == [kind |-> "raise", exc |-> e]

TrackRefs == {"t1", "t2", "t3"}
Owners == {"alice"}

\* The Track objects handed to the play list: t3 has a falsy id.
NewTrack(t) ==
    [id    |-> CASE t = "t1" -> 1 [] t = "t2" -> 2 [] OTHER -> 0,
     title |-> CASE t = "t1" -> "A" [] t = "t2" -> "B" [] OTHER -> "C",
     time  |-> CASE t = "t1" -> 3 [] t = "t2" -> 2 [] OTHER -> 3,
     owner |-> None,
     start |-> 0,
     pause |-> 0]

SeqsUpTo(S, n) == UNION {[1..k -> S] : k \in 0..n}

Batches == SeqsUpTo(TrackRefs, MaxBatch)
\* delete sorts its input, so one ordering of each list of indexes is enough:
\* the ascending one, which the sort has to turn around.
IsAscending(s) == \A k \in 1..(Len(s) - 1) : s[k] <= s[k + 1]
IndexLists == {s \in SeqsUpTo(-1..MaxLen, MaxIdx) : IsAscending(s)}
Offsets == 0..MaxOffset
Amounts == 0..MaxAmount
SeekOffsets == 0..MaxSeek
ClockDrifts == 0..MaxDrift
Jumps == (0 - MaxJump)..MaxJump

Range(s) == {s[k] : k \in 1..Len(s)}

VARIABLES
    track_list,     \* self.track_list: sequence of track references
    track_index,    \* self.track_index
    current_track,  \* self.current_track: a track reference or None
    is_paused,      \* self.is_paused
    tracks,         \* the Track objects, by reference
    now,            \* the value time.time() returns
    op,             \* the last call made
    ret,            \* what the last call returned or raised
    args,           \* the arguments of the last call, where a run records them
    ever_listed,    \* history: the tracks that have been in track_list
    last_started,   \* history: the track of the last start call, or None
    calls,          \* history: the number of calls made so far
    phase           \* "mix": any call; "drain": only next_track is called

vars == <<track_list, track_index, current_track, is_paused, tracks, now,
          op, ret, args, ever_listed, last_started, calls, phase>>

\* ---------------------------------------------------------------- __init__
init_track_list == <<>>
init_track_index == 0
InitCurrentPlaceholder == "t3"
init_current_track == None
init_is_paused == FALSE

Init ==
    /\ track_list = init_track_list
    /\ track_index = init_track_index
    /\ current_track = init_current_track
    /\ is_paused = init_is_paused
    /\ tracks = [t \in TrackRefs |-> NewTrack(t)]
    /\ now = Epoch
    /\ op = "init"
    /\ ret = NoneV
    /\ args = <<>>
    /\ ever_listed = Range(init_track_list)
    /\ last_started = None
    /\ calls = 0
    /\ phase = "mix"

\* ---------------------------------------------------------------- properties
\* Python list indexing (0-based; a negative index counts from the end).
EntryAt(lst, i) == IF i >= 0 THEN lst[i + 1] ELSE lst[Len(lst) + i + 1]

ElapsedSinceStart(cur, paused, heap, clock) ==
    IF cur # None
    THEN LET e == clock - heap[cur].start
         IN  IF e > heap[cur].time THEN 0 ELSE e
    ELSE 0

ElapsedUncapped(cur, paused, heap, clock) ==
    IF cur # None
    THEN IF paused THEN heap[cur].pause ELSE clock - heap[cur].start
    ELSE 0

elapsed_of(cur, paused, heap, clock) ==
    IF cur # None
    THEN IF paused
         THEN heap[cur].pause
         ELSE LET e == clock - heap[cur].start
              IN  IF e > heap[cur].time THEN 0 ELSE e
    ELSE 0

elapsed == elapsed_of(current_track, is_paused, tracks, now)

RemainingIsDuration(cur, paused, heap, clock) ==
    IF cur # None THEN heap[cur].time ELSE 0

remaining_of(cur, paused, heap, clock) ==
    IF cur # None
    THEN heap[cur].time - elapsed_of(cur, paused, heap, clock)
    ELSE 0

remaining == remaining_of(current_track, is_paused, tracks, now)

HasActiveWhenElapsed == elapsed > 0

has_active_track ==
    IF is_paused THEN TRUE
    ELSE IF elapsed = 0 THEN FALSE
    ELSE IF elapsed > 0 THEN TRUE
    ELSE FALSE

last_index ==
    IF Len(track_list) = 0 THEN 0 ELSE Len(track_list) - 1

IsLastGt(idx, len) == idx > len
is_last_cond(idx, len) == idx >= len

is_last_track ==
    IF Len(track_list) > 0
    THEN IF is_last_cond(track_index, Len(track_list)) THEN BoolV(TRUE) ELSE BoolV(FALSE)
    ELSE NoneV

queue ==
    IF Len(track_list) > 0
    THEN PairV(Len(track_list), Len(track_list) - track_index)
    ELSE NoneV

\* ---------------------------------------------------------------- next_track
DecIndex(i) == i - 1
IncIndex(i) == i + 1

next_track_guard(idx, len) == idx <= len

NextTrackUnpause ==
    /\ op' = "next_track"
    /\ is_paused' = FALSE
    /\ IF track_index < Len(track_list)
       THEN /\ current_track' = EntryAt(track_list, track_index)
            /\ tracks' = [tracks EXCEPT ![current_track'].start = now]
            /\ track_index' = IncIndex(track_index)
            /\ ret' = TrackV(current_track')
       ELSE /\ ret' = IF Len(track_list) > 0 THEN Raise("IndexError") ELSE NoneV
            /\ UNCHANGED <<current_track, tracks, track_index>>
    /\ UNCHANGED <<track_list, now, ever_listed, last_started>>

next_track ==
    /\ op' = "next_track"
    /\ IF Len(track_list) > 0
       THEN IF next_track_guard(track_index, Len(track_list))
            THEN IF track_index < Len(track_list)
                 THEN /\ current_track' = EntryAt(track_list, track_index)
                      /\ tracks' = [tracks EXCEPT ![current_track'].start = now]
                      /\ track_index' = IncIndex(track_index)
                      /\ ret' = TrackV(current_track')
                 ELSE \* track_list[len(track_list)] raises before any assignment
                      /\ ret' = Raise("IndexError")
                      /\ UNCHANGED <<current_track, tracks, track_index>>
            ELSE /\ ret' = NoneV
                 /\ UNCHANGED <<current_track, tracks, track_index>>
       ELSE /\ ret' = NoneV
            /\ UNCHANGED <<current_track, tracks, track_index>>
    /\ UNCHANGED <<track_list, is_paused, now, ever_listed, last_started>>

\* ---------------------------------------------------------------- transport
start(owner, track) ==
    /\ op' = "start"
    /\ is_paused' = FALSE
    /\ current_track' = track
    /\ tracks' = [tracks EXCEPT ![track].owner = owner, ![track].start = now]
    /\ ret' = TrackV(track)
    /\ last_started' = track
    /\ UNCHANGED <<track_list, track_index, now, ever_listed>>

\* play reads the clock twice: once to set start, and once more, no earlier,
\* when it returns remaining (through elapsed).
play(offset) ==
    /\ op' = "play"
    /\ is_paused' = FALSE
    /\ IF current_track = None
       THEN /\ ret' = Raise("AttributeError")
            /\ UNCHANGED <<tracks, now>>
       ELSE \E d \in ClockDrifts :
            /\ tracks' = [tracks EXCEPT ![current_track].start = now - offset]
            /\ now' = now + d
            /\ ret' = NumV(remaining_of(current_track, FALSE, tracks', now'))
    /\ UNCHANGED <<track_list, track_index, current_track, ever_listed,
                   last_started>>

replay ==
    /\ op' = "replay"
    /\ is_paused' = FALSE
    /\ IF current_track = None
       THEN /\ ret' = Raise("AttributeError")
            /\ UNCHANGED tracks
       ELSE /\ tracks' = [tracks EXCEPT ![current_track].start = now]
            /\ ret' = TrackV(current_track)
    /\ UNCHANGED <<track_list, track_index, current_track, now, ever_listed,
                   last_started>>

pause(offset) ==
    /\ op' = "pause"
    /\ is_paused' = TRUE
    /\ IF current_track = None
       THEN /\ ret' = Raise("AttributeError")
            /\ UNCHANGED tracks
       ELSE /\ tracks' = [tracks EXCEPT ![current_track].pause =
                             IF offset # 0 THEN offset
                             ELSE now - tracks[current_track].start]
            /\ ret' = NoneV
    /\ UNCHANGED <<track_list, track_index, current_track, now, ever_listed,
                   last_started>>

StopKeepStart ==
    /\ op' = "stop"
    /\ is_paused' = FALSE
    /\ IF current_track = None
       THEN /\ ret' = Raise("AttributeError")
            /\ UNCHANGED tracks
       ELSE /\ tracks' = [tracks EXCEPT ![current_track].pause = 0]
            /\ ret' = NoneV
    /\ UNCHANGED <<track_list, track_index, current_track, now, ever_listed,
                   last_started>>

stop ==
    /\ op' = "stop"
    /\ is_paused' = FALSE
    /\ IF current_track = None
       THEN /\ ret' = Raise("AttributeError")
            /\ UNCHANGED tracks
       ELSE /\ tracks' = [tracks EXCEPT ![current_track].start = 0,
                                        ![current_track].pause = 0]
            /\ ret' = NoneV
    /\ UNCHANGED <<track_list, track_index, current_track, now, ever_listed,
                   last_started>>

\* ---------------------------------------------------------------- add, add_list
AcceptAny(id) == TRUE
truthy(id) == id # 0

\* The effect of add on the list and the heap; st = [track_list, tracks].
add_effect(st, owner, track) ==
    IF truthy(st.tracks[track].id)
    THEN [track_list |-> Append(st.track_list, track),
          tracks |-> [st.tracks EXCEPT ![track].owner = owner]]
    ELSE st

add_return(heap, track) ==
    IF truthy(heap[track].id) THEN TrackV(track) ELSE NoneV

RECURSIVE AddAllStopOnInvalid(_, _, _)
AddAllStopOnInvalid(st, owner, batch) ==
    IF batch = <<>> THEN st
    ELSE IF st.tracks[Head(batch)].id = 0 THEN st
    ELSE AddAllStopOnInvalid(add_effect(st, owner, Head(batch)), owner, Tail(batch))

RECURSIVE add_all(_, _, _)
add_all(st, owner, batch) ==
    IF batch = <<>> THEN st
    ELSE add_all(add_effect(st, owner, Head(batch)), owner, Tail(batch))

add(owner, track) ==
    LET st == add_effect([track_list |-> track_list, tracks |-> tracks], owner, track)
    IN  /\ Len(st.track_list) <= MaxLen
        /\ op' = "add"
        /\ track_list' = st.track_list
        /\ tracks' = st.tracks
        /\ ret' = add_return(tracks, track)
        /\ ever_listed' = ever_listed \cup Range(track_list')
        /\ UNCHANGED <<track_index, current_track, is_paused, now, last_started>>

add_list(owner, batch) ==
    LET st == IF Len(batch) > 0
              THEN add_all([track_list |-> track_list, tracks |-> tracks], owner, batch)
              ELSE [track_list |-> track_list, tracks |-> tracks]
    IN  /\ Len(st.track_list) <= MaxLen
        /\ op' = "add_list"
        /\ track_list' = st.track_list
        /\ tracks' = st.tracks
        /\ ret' = NoneV
        /\ ever_listed' = ever_listed \cup Range(track_list')
        /\ UNCHANGED <<track_index, current_track, is_paused, now, last_started>>

\* ---------------------------------------------------------------- clear
ClearKeepIndex(lst, idx) ==
    IF Len(lst) > 0
    THEN [track_list |-> <<>>, track_index |-> idx, ret |-> BoolV(TRUE)]
    ELSE [track_list |-> lst, track_index |-> idx, ret |-> BoolV(FALSE)]

clear_effect(lst, idx) ==
    IF Len(lst) > 0
    THEN [track_list |-> <<>>, track_index |-> 0, ret |-> BoolV(TRUE)]
    ELSE [track_list |-> lst, track_index |-> idx, ret |-> BoolV(FALSE)]

clear ==
    LET r == clear_effect(track_list, track_index)
    IN  /\ op' = "clear"
        /\ track_list' = r.track_list
        /\ track_index' = r.track_index
        /\ ret' = r.ret
        /\ UNCHANGED <<current_track, is_paused, tracks, now, ever_listed,
                       last_started>>

\* ---------------------------------------------------------------- delete
Digits == <<"0", "1", "2", "3", "4", "5", "6", "7", "8", "9">>

\* str(i) and int(s) on the indexes of a list of fewer than ten tracks.
str(i) == Digits[i + 1]
int(s) == (CHOOSE k \in 1..Len(Digits) : Digits[k] = s) - 1

NoReverse(s) == s
Reverse(s) == [k \in 1..Len(s) |-> s[Len(s) + 1 - k]]

RECURSIVE InsertDescending(_, _)
InsertDescending(x, s) ==
    IF s = <<>> THEN <<x>>
    ELSE IF x >= Head(s) THEN <<x>> \o s
    ELSE <<Head(s)>> \o InsertDescending(x, Tail(s))

RECURSIVE SortedDescending(_)
SortedDescending(s) ==
    IF s = <<>> THEN <<>> ELSE InsertDescending(Head(s), SortedDescending(Tail(s)))

SortedAscending(indexes) == Reverse(SortedDescending(indexes))

\* sorted(indexes, reverse=True)
sorted_reverse(indexes) == SortedDescending(indexes)

\* del lst[i]
DelAt(lst, i) == SubSeq(lst, 1, i) \o SubSeq(lst, i + 2, Len(lst))

DeleteGuardNoCursor(idx, i, len) == 0 <= i /\ i < len
delete_guard(idx, i, len) == idx <= i /\ i < len

RECURSIVE delete_loop(_, _, _, _)
delete_loop(order, lst, deleted, idx) ==
    IF order = <<>> THEN [track_list |-> lst, deleted_indexes |-> deleted]
    ELSE LET i == Head(order)
         IN  IF delete_guard(idx, i, Len(lst))
             THEN delete_loop(Tail(order), DelAt(lst, i), Append(deleted, str(i)), idx)
             ELSE delete_loop(Tail(order), lst, deleted, idx)

delete_result(before, heap, deleted_indexes, by_range) ==
    IF Len(deleted_indexes) > 0
    THEN IF by_range
         THEN [kind |-> "dict",
               from |-> deleted_indexes[1],
               to |-> deleted_indexes[Len(deleted_indexes)],
               deleted_indexes |-> deleted_indexes,
               deleted_indexes_len |-> Len(deleted_indexes)]
         ELSE IF Len(deleted_indexes) = 1
         THEN [kind |-> "dict",
               track_title |-> heap[EntryAt(before, int(deleted_indexes[1]))].title,
               deleted_indexes |-> deleted_indexes,
               deleted_indexes_len |-> Len(deleted_indexes)]
         ELSE [kind |-> "dict",
               deleted_indexes |-> deleted_indexes,
               deleted_indexes_len |-> Len(deleted_indexes)]
    ELSE NoneV

delete(indexes, by_range) ==
    LET r == delete_loop(sorted_reverse(indexes), track_list, <<>>, track_index)
    IN  /\ op' = "delete"
        /\ track_list' = r.track_list
        /\ ret' = delete_result(track_list, tracks, Reverse(r.deleted_indexes), by_range)
        /\ UNCHANGED <<track_index, current_track, is_paused, tracks, now,
                       ever_listed, last_started>>

\* ---------------------------------------------------------------- queries
\* The reads that assign nothing: is_last_track, queue, get_tracks and
\* next_track_info.
read_is_last_track ==
    /\ op' = "is_last_track"
    /\ ret' = is_last_track
    /\ UNCHANGED <<track_list, track_index, current_track, is_paused, tracks, now,
                   ever_listed, last_started>>

read_queue ==
    /\ op' = "queue"
    /\ ret' = queue
    /\ UNCHANGED <<track_list, track_index, current_track, is_paused, tracks, now,
                   ever_listed, last_started>>

\* for i in range(i, len(lst)): if ic <= amount - 1: append (i, lst[i])
RECURSIVE get_tracks_loop(_, _, _, _, _)
get_tracks_loop(i, ic, result, lst, amount) ==
    IF i >= Len(lst) THEN result
    ELSE IF ic <= amount - 1
         THEN get_tracks_loop(i + 1, ic + 1, Append(result, PairV(i, EntryAt(lst, i))),
                              lst, amount)
         ELSE get_tracks_loop(i + 1, ic, result, lst, amount)

get_tracks_result(lst, idx, amount, from_index) ==
    IF Len(lst) > 0
    THEN get_tracks_loop(IF from_index THEN idx ELSE 0, 0, <<>>, lst, amount)
    ELSE <<>>

get_tracks(amount, from_index) ==
    /\ op' = "get_tracks"
    /\ ret' = ListV(get_tracks_result(track_list, track_index, amount, from_index))
    /\ UNCHANGED <<track_list, track_index, current_track, is_paused, tracks, now,
                   ever_listed, last_started>>

\* lst[k] for any integer k: IndexError outside -len(lst)..len(lst)-1.
InList(lst, k) == 0 - Len(lst) <= k /\ k < Len(lst)

next_track_info_result(lst, idx, jump) ==
    IF jump # 0
    THEN IF idx + jump < Len(lst)
         THEN IF InList(lst, idx + jump)
              THEN PairV(idx + jump, EntryAt(lst, idx + jump))
              ELSE Raise("IndexError")
         ELSE NoneV
    ELSE IF idx < Len(lst)
         THEN PairV(idx, EntryAt(lst, idx))
         ELSE NoneV

next_track_info(jump) ==
    /\ op' = "next_track_info"
    /\ ret' = next_track_info_result(track_list, track_index, jump)
    /\ UNCHANGED <<track_list, track_index, current_track, is_paused, tracks, now,
                   ever_listed, last_started>>

\* ---------------------------------------------------------------- the clock
Tick ==
    /\ now < Epoch + MaxTicks
    /\ now' = now + 1
    /\ op' = "tick"
    /\ ret' = NoneV
    /\ UNCHANGED <<track_list, track_index, current_track, is_paused, tracks,
                   args, ever_listed, last_started, calls, phase>>

\* ---------------------------------------------------------------- specification
\* One call of the caller's, while the caller still makes arbitrary calls.
Call(A) ==
    /\ phase = "mix"
    /\ calls < MaxCalls
    /\ calls' = calls + 1
    /\ A
    /\ UNCHANGED <<args, phase>>

Next ==
    \/ \E o \in Owners, t \in TrackRefs : Call(add(o, t))
    \/ \E o \in Owners, b \in Batches : Call(add_list(o, b))
    \/ Call(next_track)
    \/ \E ix \in IndexLists, br \in BOOLEAN : Call(delete(ix, br))
    \/ Call(clear)
    \/ \E o \in Owners, t \in TrackRefs : Call(start(o, t))
    \/ \E off \in Offsets : Call(play(off))
    \/ Call(replay)
    \/ \E off \in Offsets : Call(pause(off))
    \/ Call(stop)
    \/ Tick

Spec == Init /\ [][Next]_vars

\* The caller stops making other calls and from then on only reads next_track.
BeginDrain ==
    /\ phase = "mix"
    /\ phase' = "drain"
    /\ UNCHANGED <<track_list, track_index, current_track, is_paused, tracks, now,
                   op, ret, args, ever_listed, last_started, calls>>

DrainStep ==
    /\ phase = "drain"
    /\ next_track
    /\ UNCHANGED <<args, calls, phase>>

NextDrain ==
    \/ Next
    \/ BeginDrain
    \/ DrainStep

SpecDrain == Init /\ [][NextDrain]_vars /\ WF_vars(DrainStep)

\* The queue calls, start and pause, with the arguments of each call recorded.
TracedCall(A, a) ==
    /\ phase = "mix"
    /\ calls < MaxCalls
    /\ calls' = calls + 1
    /\ args' = a
    /\ A
    /\ UNCHANGED phase

NextTraced ==
    \/ \E o \in Owners, t \in TrackRefs : TracedCall(add(o, t), <<o, t>>)
    \/ \E o \in Owners, b \in Batches : TracedCall(add_list(o, b), <<o, b>>)
    \/ TracedCall(next_track, <<>>)
    \/ \E ix \in IndexLists, br \in BOOLEAN : TracedCall(delete(ix, br), <<ix, br>>)
    \/ TracedCall(clear, <<>>)
    \/ \E o \in Owners, t \in TrackRefs : TracedCall(start(o, t), <<o, t>>)
    \/ \E off \in Offsets : TracedCall(pause(off), <<off>>)

SpecTraced == Init /\ [][NextTraced]_vars

\* The calls that fill, walk and empty the list, pause, and the reads, with the
\* arguments of each call recorded.
NextQuery ==
    \/ \E o \in Owners, t \in TrackRefs : TracedCall(add(o, t), <<o, t>>)
    \/ \E o \in Owners, b \in Batches : TracedCall(add_list(o, b), <<o, b>>)
    \/ TracedCall(next_track, <<>>)
    \/ TracedCall(clear, <<>>)
    \/ \E off \in Offsets : TracedCall(pause(off), <<off>>)
    \/ TracedCall(read_is_last_track, <<>>)
    \/ TracedCall(read_queue, <<>>)
    \/ \E n \in Amounts, f \in BOOLEAN : TracedCall(get_tracks(n, f), <<n, f>>)
    \/ \E j \in Jumps : TracedCall(next_track_info(j), <<j>>)

SpecQuery == Init /\ [][NextQuery]_vars

\* The calls that time a track (add and next_track to list and serve one,
\* start, play, replay, pause, stop), clear, and the clock, with the arguments
\* of each call recorded.
TimedTick ==
    /\ now < Epoch + MaxTimedTicks
    /\ now' = now + 1
    /\ op' = "tick"
    /\ ret' = NoneV
    /\ UNCHANGED <<track_list, track_index, current_track, is_paused, tracks,
                   args, ever_listed, last_started, calls, phase>>

TimedCall(A, a) ==
    /\ phase = "mix"
    /\ calls < MaxTimedCalls
    /\ calls' = calls + 1
    /\ args' = a
    /\ A
    /\ UNCHANGED phase

NextTimed ==
    \/ \E o \in Owners, t \in TrackRefs : TimedCall(add(o, t), <<o, t>>)
    \/ TimedCall(next_track, <<>>)
    \/ TimedCall(clear, <<>>)
    \/ \E o \in Owners, t \in TrackRefs : TimedCall(start(o, t), <<o, t>>)
    \/ \E off \in SeekOffsets : TimedCall(play(off), <<off>>)
    \/ TimedCall(replay, <<>>)
    \/ \E off \in Offsets : TimedCall(pause(off), <<off>>)
    \/ TimedCall(stop, <<>>)
    \/ TimedTick

SpecTimed == Init /\ [][NextTimed]_vars

\* ---------------------------------------------------------------- claims
\* A step that is a call of the method named (BeginDrain calls nothing).
CallStep(name) == op' = name /\ phase' = phase

\* C1: in every reachable state 0 <= track_index <= len(track_list).
CursorInBounds ==
    0 <= track_index /\ track_index <= Len(track_list)

\* A delete that removed everything from the cursor on, with the cursor past 0.
CursorInBoundsWitness ==
    /\ op = "delete"
    /\ ret.kind = "dict"
    /\ track_index > 0
    /\ track_index = Len(track_list)

\* C2: no call other than clear lowers track_index, and a call that lowers it
\* is a clear that sets it to 0.
CursorMonotone ==
    [][/\ (~CallStep("clear")) => track_index' >= track_index
       /\ track_index' < track_index => (CallStep("clear") /\ track_index' = 0)]_vars

\* A clear that returned True after next_track had served a track.
CursorMonotoneWitness ==
    /\ op = "clear"
    /\ ret = BoolV(TRUE)
    /\ track_index = 0
    /\ current_track # None
    /\ last_started = None

\* C3: is_paused implies a current track, also after a transport call made
\* with no current track.
PausedImpliesCurrent ==
    is_paused => current_track # None

\* C4 as stated: the current track is None or was in track_list at some point.
CurrentWasListed ==
    current_track # None => current_track \in ever_listed

\* C4: the current track is None, or was in track_list at some point, or is
\* the track given to the last start call.
CurrentListedOrStarted ==
    current_track # None =>
        (current_track \in ever_listed \/ current_track = last_started)

\* start made a track current that has never been in track_list.
CurrentListedOrStartedWitness ==
    /\ op = "start"
    /\ current_track # None
    /\ current_track \notin ever_listed

\* C5: with a non-empty list and track_index <= len(track_list), next_track
\* returns the entry at track_index, makes it current, stamps its start with
\* the clock and adds 1 to track_index.
AdvanceServesCursorEntry ==
    [][(/\ CallStep("next_track")
        /\ Len(track_list) > 0
        /\ track_index <= Len(track_list))
       => (/\ ret'.kind = "Track"
           /\ ret'.track = EntryAt(track_list, track_index)
           /\ current_track' = ret'.track
           /\ tracks'[ret'.track].start = now
           /\ track_index' = track_index + 1)]_vars

\* C6: once only next_track is called on a non-empty list, is_last_track
\* becomes True, and is_last_track is True exactly when
\* track_index = len(track_list).
DrainReachesLast ==
    /\ [](Len(track_list) > 0 =>
            (is_last_track = BoolV(TRUE) <=> track_index = Len(track_list)))
    /\ ((phase = "drain" /\ Len(track_list) > 0) ~> (is_last_track = BoolV(TRUE)))

\* Repeated next_track calls walked a list of two or more tracks to its end.
DrainReachesLastWitness ==
    /\ phase = "drain"
    /\ op = "next_track"
    /\ ret.kind = "Track"
    /\ Len(track_list) >= 2
    /\ is_last_track = BoolV(TRUE)

\* A call made by a run that records the arguments, which are then in args'.
TracedStep(name) == op' = name /\ calls' = calls + 1 /\ args' # <<>>

\* C7: add of a track with a falsy id returns None and changes nothing; add of
\* a track with a truthy id sets its owner, appends it and returns it.
AddContract ==
    [][TracedStep("add") =>
        LET o == args'[1]
            t == args'[2]
        IN  IF tracks[t].id = 0
            THEN /\ ret' = NoneV
                 /\ track_list' = track_list
                 /\ tracks' = tracks
                 /\ UNCHANGED <<track_index, current_track, is_paused>>
            ELSE /\ ret' = TrackV(t)
                 /\ tracks'[t].owner = o
                 /\ Len(track_list') = Len(track_list) + 1
                 /\ track_list'[Len(track_list')] = t
                 /\ SubSeq(track_list', 1, Len(track_list)) = track_list]_vars

\* An add of the track with the falsy id was declined on a non-empty list.
AddContractWitness ==
    /\ op = "add"
    /\ args = <<"alice", "t3">>
    /\ ret = NoneV
    /\ Len(track_list) > 0

HasId(t) == tracks[t].id # 0

\* C8: add_list appends exactly the tracks of its input that have a truthy id,
\* in input order, after the existing entries; an empty input changes nothing.
AddBatchContract ==
    [][TracedStep("add_list") =>
        LET o == args'[1]
            b == args'[2]
            valid == SelectSeq(b, HasId)
        IN  /\ track_list' = track_list \o valid
            /\ Len(track_list') = Len(track_list) + Len(valid)
            /\ \A k \in 1..Len(valid) : tracks'[valid[k]].owner = o
            /\ b = <<>> => (track_list' = track_list /\ tracks' = tracks)
            /\ UNCHANGED <<track_index, current_track, is_paused>>]_vars

\* A batch of a track with a falsy id and then one with a truthy id was added
\* to a non-empty list.
AddBatchContractWitness ==
    /\ op = "add_list"
    /\ Len(args[2]) = 2
    /\ tracks[args[2][1]].id = 0
    /\ tracks[args[2][2]].id # 0
    /\ Len(track_list) >= 2

\* C9: clear returns True iff track_list was non-empty, and leaves track_list
\* empty and track_index = 0 in both cases.
ClearContract ==
    [][CallStep("clear") =>
        (/\ ret' = BoolV(Len(track_list) > 0)
         /\ track_list' = <<>>
         /\ track_index' = 0)]_vars

\* clear returned False on a list that had been filled and emptied before.
ClearContractWitness ==
    /\ op = "clear"
    /\ ret = BoolV(FALSE)
    /\ ever_listed # {}

NoRepeats(s) == \A j, k \in 1..Len(s) : j # k => s[j] # s[k]

\* The list without the entries at the (0-based) positions in D.
WithoutPositions(lst, D) ==
    LET keep == {k \in 1..Len(lst) : (k - 1) \notin D}
        nth(j) == CHOOSE k \in keep : Cardinality({m \in keep : m < k}) = j - 1
    IN  [j \in 1..Cardinality(keep) |-> lst[nth(j)]]

\* C10: delete of a set of indexes removes exactly the entries at the indexes
\* i with track_index <= i < len(track_list), keeps the rest in order, and
\* leaves track_index, current_track and is_paused alone.
DeleteContract ==
    [][(TracedStep("delete") /\ NoRepeats(args'[1])) =>
        LET D == {i \in Range(args'[1]) : track_index <= i /\ i < Len(track_list)}
        IN  /\ track_list' = WithoutPositions(track_list, D)
            /\ SubSeq(track_list', 1, track_index) = SubSeq(track_list, 1, track_index)
            /\ UNCHANGED <<track_index, current_track, is_paused>>]_vars

\* With the cursor at 1, delete of indexes 0 and 1 removed index 1 alone.
DeleteContractWitness ==
    /\ op = "delete"
    /\ args[1] = <<0, 1>>
    /\ track_index = 1
    /\ Len(track_list) = 1
    /\ ret.kind = "dict"
    /\ ret.deleted_indexes = <<"1">>

\* The members of a set of integers, in ascending order.
Ascending(D) ==
    [j \in 1..Cardinality(D) |->
        CHOOSE i \in D : Cardinality({m \in D : m < i}) = j - 1]

\* C11: the result of delete lists the removed indexes in ascending order with
\* their count; with by_range it carries from = the smallest and to = the
\* largest of them; without by_range and with one index removed it carries the
\* title the entry at that index had; delete returns None and leaves the list
\* alone when no index qualifies.
DeleteResultContract ==
    [][(TracedStep("delete") /\ NoRepeats(args'[1])) =>
        LET br == args'[2]
            D == {i \in Range(args'[1]) : track_index <= i /\ i < Len(track_list)}
            asc == Ascending(D)
        IN  IF D = {}
            THEN /\ ret' = NoneV
                 /\ track_list' = track_list
            ELSE /\ ret'.kind = "dict"
                 /\ Len(ret'.deleted_indexes) = Len(asc)
                 /\ \A j \in 1..Len(asc) : int(ret'.deleted_indexes[j]) = asc[j]
                 /\ ret'.deleted_indexes_len = Cardinality(D)
                 /\ br => (/\ int(ret'.from) = asc[1]
                           /\ int(ret'.to) = asc[Len(asc)])
                 /\ (~br /\ Cardinality(D) = 1) =>
                        ret'.track_title = tracks[EntryAt(track_list, asc[1])].title]_vars

\* Without by_range, delete removed the entry at index 1 alone and reported
\* its title.
DeleteResultContractWitness ==
    /\ op = "delete"
    /\ args[2] = FALSE
    /\ ret.kind = "dict"
    /\ ret.deleted_indexes = <<"1">>
    /\ ret.deleted_indexes_len = 1
    /\ ret.track_title = "B"

\* The reads of the claim about the empty list.
EmptyListReads == {"next_track", "is_last_track", "queue", "get_tracks", "next_track_info"}

\* C12: with an empty list, next_track, is_last_track, queue and
\* next_track_info (any jump) yield None and get_tracks yields an empty list;
\* none of them fails and none changes the list, the cursor, the current track
\* or the pause flag.
EmptyListDegrades ==
    [][(/\ Len(track_list) = 0
        /\ calls' = calls + 1
        /\ op' \in EmptyListReads)
       => (/\ ret' = IF op' = "get_tracks" THEN ListV(<<>>) ELSE NoneV
           /\ UNCHANGED <<track_list, track_index, current_track, is_paused>>)]_vars

\* C13: for every jump, next_track_info does not fail, yields None when
\* track_index + jump is outside 0..len(track_list)-1, and otherwise yields
\* the pair of that index and the entry there.
PeekAtInBounds ==
    [][TracedStep("next_track_info") =>
        LET k == track_index + args'[1]
        IN  ret' = IF 0 <= k /\ k < Len(track_list)
                   THEN PairV(k, EntryAt(track_list, k))
                   ELSE NoneV]_vars

\* The calls after which elapsed may differ although a track is paused.
TransportOps == {"play", "replay", "start", "stop", "next_track", "pause"}

\* C14 as stated: a pause on a current track makes elapsed the stored value
\* (the offset if it is not 0, else the clock minus the track's start), and
\* from then on every step that is not a play or a replay keeps elapsed.
PauseFreezesUntilPlay ==
    [][/\ (TracedStep("pause") /\ current_track # None)
          => (/\ is_paused'
              /\ elapsed' = IF args'[1] # 0 THEN args'[1]
                            ELSE now - tracks[current_track].start)
       /\ (is_paused /\ current_track # None /\ op' \notin {"play", "replay"})
          => elapsed' = elapsed]_vars

\* C14: a pause on a current track leaves paused true and makes elapsed the
\* stored value (the offset if it is not 0, else the clock minus the track's
\* start); while paused, every step that is not a play, replay, start, stop,
\* next_track or further pause (a clock step, an add, a clear) keeps
\* paused true and elapsed at that value.
PauseFreezesElapsed ==
    [][/\ (TracedStep("pause") /\ current_track # None)
          => (/\ is_paused'
              /\ elapsed' = IF args'[1] # 0 THEN args'[1]
                            ELSE now - tracks[current_track].start)
       /\ (is_paused /\ current_track # None /\ op' \notin TransportOps)
          => (is_paused' /\ elapsed' = elapsed)]_vars

PauseFreezesElapsedWitness ==
    /\ op = "tick"
    /\ is_paused
    /\ current_track # None
    /\ tracks[current_track].pause = 1
    /\ tracks[current_track].start = Epoch
    /\ now = Epoch + 3
    /\ elapsed = 1

\* C15 as stated: for every offset >= 0, play(offset) on a current track
\* leaves paused false, makes elapsed at the clock value of the call the
\* offset, and returns time - offset.
PlaySeeksAnyOffset ==
    [][(TracedStep("play") /\ current_track # None)
       => (/\ ~is_paused'
           /\ elapsed_of(current_track', is_paused', tracks', now) = args'[1]
           /\ ret' = NumV(tracks[current_track].time - args'[1]))]_vars

\* C15: play(offset) on a current track leaves paused false and sets start to
\* the clock at the call minus the offset, so that elapsed at that clock value
\* is the offset when the offset is at most the track's duration, and 0 when
\* it is larger; play returns remaining read d >= 0 later: time - offset - d
\* when offset + d is at most the duration, else the whole duration.
PlaySeeksWithinDuration ==
    [][(TracedStep("play") /\ current_track # None)
       => LET off == args'[1]
              dur == tracks[current_track].time
              d == now' - now
          IN  /\ ~is_paused'
              /\ tracks'[current_track].start = now - off
              /\ elapsed_of(current_track', is_paused', tracks', now)
                    = IF off <= dur THEN off ELSE 0
              /\ d >= 0
              /\ ret' = NumV(IF off + d <= dur THEN dur - off - d ELSE dur)]_vars

PlaySeeksWithinDurationWitness ==
    /\ op = "play"
    /\ current_track = "t2"
    /\ args = <<2>>
    /\ tracks["t2"].start = now - 3
    /\ ret = NumV(2)
    /\ elapsed = 0

\* C16: elapsed is never negative, and for a current track that is not paused
\* remaining = time - elapsed with 0 <= remaining <= time.
ElapsedRemainingBounds ==
    /\ elapsed >= 0
    /\ (current_track # None /\ ~is_paused)
       => (/\ remaining = tracks[current_track].time - elapsed
           /\ 0 <= remaining
           /\ remaining <= tracks[current_track].time)

ElapsedRemainingBoundsWitness ==
    /\ current_track = "t2"
    /\ ~is_paused
    /\ tracks["t2"].start = Epoch
    /\ now = Epoch + 3
    /\ elapsed = 0
    /\ remaining = 2

\* C17: has_active_track is true exactly when paused is true, or there is a
\* current track and the clock minus its start is positive and at most its
\* duration.
HasActiveTrackMeaning ==
    has_active_track <=>
        \/ is_paused
        \/ /\ current_track # None
           /\ 0 < now - tracks[current_track].start
           /\ now - tracks[current_track].start <= tracks[current_track].time

HasActiveTrackMeaningWitness ==
    /\ op = "tick"
    /\ ~is_paused
    /\ current_track = "t2"
    /\ now - tracks["t2"].start = 3
    /\ ~has_active_track

\* C18: stop on a current track sets paused false and the track's start and
\* pause to 0, keeps current_track, track_list and track_index, and leaves
\* has_active_track false.
StopContract ==
    [][(CallStep("stop") /\ current_track # None)
       => (/\ ~is_paused'
           /\ tracks' = [tracks EXCEPT ![current_track].start = 0,
                                       ![current_track].pause = 0]
           /\ UNCHANGED <<current_track, track_list, track_index>>
           /\ ~has_active_track')]_vars

StopContractWitness ==
    /\ op = "stop"
    /\ ret = NoneV
    /\ current_track # None
    /\ Len(track_list) > 0
    /\ track_index > 0
    /\ tracks[current_track].start = 0

\* C19: next_track leaves paused as it was; when it serves a track while
\* paused, has_active_track is true afterwards and elapsed is the stored pause
\* of the new current track, whose start is the clock.
AdvanceKeepsPaused ==
    [][CallStep("next_track")
       => (/\ is_paused' = is_paused
           /\ (is_paused /\ ret'.kind = "Track")
              => (/\ has_active_track'
                  /\ tracks'[current_track'].start = now
                  /\ elapsed' = tracks'[current_track'].pause))]_vars

AdvanceKeepsPausedWitness ==
    /\ op = "next_track"
    /\ ret.kind = "Track"
    /\ is_paused
    /\ tracks[current_track].pause = 1
    /\ tracks[current_track].start = now
    /\ elapsed = 1

ServedIsCurrent ==
    (last_started = None /\ current_track # None)
    => (/\ 0 < track_index
        /\ track_index <= Len(track_list)
        /\ current_track = EntryAt(track_list, track_index - 1))

\* C20: a call other than clear never lowers track_index and never removes,
\* reorders or replaces the entries before it; and while start has not been
\* called, such a call keeps current_track = track_list[track_index - 1].
ServedPrefixStable ==
    [][(calls' = calls + 1 /\ op' # "clear")
       => (/\ track_index' >= track_index
           /\ Len(track_list') >= track_index
           /\ SubSeq(track_list', 1, track_index) = SubSeq(track_list, 1, track_index)
           /\ (ServedIsCurrent => ServedIsCurrent'))]_vars

ServedPrefixStableWitness ==
    /\ op = "delete"
    /\ ret.kind = "dict"
    /\ track_index = 1
    /\ Len(track_list) = 1
    /\ last_started = None
    /\ current_track = EntryAt(track_list, 0)

====
